---- MODULE Spec2Model ----
(***************************************************************************)
(* Model of azure/core/pipeline/transport/_requests_trio.py:               *)
(* TrioRequestsTransport.send and TrioStreamDownloadGenerator.             *)
(*                                                                         *)
(* The blocking HTTP library (requests / urllib3) and the trio runtime are *)
(* the environment: what a blocking call returns or raises, what the chunk *)
(* iterator yields, and which dispatch names the runtime offers are chosen *)
(* nondeterministically.  Everything the adapter does with those results   *)
(* is translated from the source.                                          *)
(***************************************************************************)
EXTENDS Integers, Sequences, FiniteSets, TLC

VARIABLES
    trio_version,   \* which worker-dispatch names the trio runtime offers
    session_open,   \* self.open() has created the session
    calls,          \* blocking session.request calls issued by the last send, each with what it handed back
    sendResult,     \* what the last send gave its caller
    response,       \* the TrioRequestsTransportResponse the last send returned, if any
    sendArgs,       \* the request and keyword options the last send was called with
    scope,          \* whether the caller is inside `async with transport:`
    sync_entered,   \* the synchronous transport's __enter__ ran and its __exit__ has not since
    last_exit,      \* how the scope was last left: "none", "normal" or "error"
    handle,         \* the TrioStreamDownloadGenerator being consumed
    produced,       \* what handle.iter_content_func has yielded so far, in order
    it_done,        \* the chunk generator has finished (returned or raised)
    closed,         \* internal_response.close() has been called on the handle's response
    warned,         \* number of _LOGGER.warning calls made for the handle
    pc,             \* per task: position inside __anext__
    inflight,       \* worker dispatches reading the iterator that have not returned yet
    res,            \* per task: what the worker dispatch handed back
    ctx,            \* per task: stream status when its current pull began
    out,            \* per task: what its last pull gave the caller, once it has completed
    delivered,      \* chunks returned to the consumer, in the order returned
    ended,          \* some pull has raised StopAsyncIteration
    failed,         \* some pull has logged, closed and re-raised a read error
    abandoned       \* the consumer dropped the handle without exhausting it

vars == <<trio_version, session_open, calls, sendResult, response, sendArgs, scope,
          sync_entered, last_exit, handle,
          produced, it_done, closed, warned, pc, inflight, res, ctx, out, delivered,
          ended, failed, abandoned>>

transportVars == <<session_open, calls, sendResult, response, sendArgs>>
scopeVars == <<scope, sync_entered, last_exit>>
streamVars == <<handle, produced, it_done, closed, warned, pc, inflight, res, ctx, out,
                delivered, ended, failed, abandoned>>

(***************************************************************************)
(* Bounds                                                                  *)
(***************************************************************************)
\* Most items the chunk generator yields before it must finish.
MaxChunks == 3
\* Most warnings logged for one handle while the generator is found busy.
MaxWarnings == 2

(***************************************************************************)
(* Exceptions.  An exception is its class and the class of args[0].        *)
(***************************************************************************)
Exc(c, a) == [cls |-> c, arg0 |-> a]
NoExc == Exc("none", "none")

\* The classes an exception class derives from (itself included), as the
\* except clauses of send and __anext__ see them through isinstance.
Ancestors(c) ==
    CASE c = "NewConnectionError"     -> {"NewConnectionError", "ConnectTimeoutError", "urllib3.HTTPError", "Exception"}
      [] c = "ProtocolError"          -> {"ProtocolError", "urllib3.HTTPError", "Exception"}
      [] c = "ReadTimeout"            -> {"ReadTimeout", "Timeout", "RequestException", "Exception"}
      [] c = "ConnectTimeout"         -> {"ConnectTimeout", "ConnectionError", "Timeout", "RequestException", "Exception"}
      [] c = "ConnectionError"        -> {"ConnectionError", "RequestException", "Exception"}
      [] c = "ProxyError"             -> {"ProxyError", "ConnectionError", "RequestException", "Exception"}
      [] c = "Timeout"                -> {"Timeout", "RequestException", "Exception"}
      [] c = "ChunkedEncodingError"   -> {"ChunkedEncodingError", "RequestException", "Exception"}
      [] c = "ContentDecodingError"   -> {"ContentDecodingError", "RequestException", "Exception"}
      [] c = "StreamConsumedError"    -> {"StreamConsumedError", "RequestException", "TypeError", "Exception"}
      [] c = "InvalidURL"             -> {"InvalidURL", "RequestException", "ValueError", "Exception"}
      [] c = "RequestException"       -> {"RequestException", "Exception"}
      [] c = "AttributeError"         -> {"AttributeError", "Exception"}
      [] c = "ValueError"             -> {"ValueError", "Exception"}
      [] c = "_ResponseStopIteration" -> {"_ResponseStopIteration", "Exception"}
      [] OTHER                        -> {c}

IsInstance(e, c) == c \in Ancestors(e.cls)

\* What the blocking session.request call can raise.
SendExcs ==
    { Exc("NewConnectionError", "none"),
      Exc("ConnectionError", "MaxRetryError"),
      Exc("ConnectionError", "ProtocolError"),
      Exc("ConnectionError", "none"),
      Exc("ConnectTimeout", "MaxRetryError"),
      Exc("ProxyError", "MaxRetryError"),
      Exc("ReadTimeout", "ReadTimeoutError"),
      Exc("Timeout", "none"),
      Exc("ChunkedEncodingError", "ProtocolError"),
      Exc("ContentDecodingError", "DecodeError"),
      Exc("InvalidURL", "none"),
      Exc("RequestException", "none"),
      Exc("ProtocolError", "none"),
      Exc("AttributeError", "none"),
      Exc("ValueError", "none") }

\* What reading the next chunk can raise.
ReadExcs ==
    { Exc("ConnectionError", "ReadTimeoutError"),
      Exc("ReadTimeout", "ReadTimeoutError"),
      Exc("ChunkedEncodingError", "ProtocolError"),
      Exc("StreamConsumedError", "none"),
      Exc("AttributeError", "none") }

(***************************************************************************)
(* Requests, options, headers                                              *)
(***************************************************************************)
Requests ==
    { [method |-> "GET", url |-> "u", headers |-> "h", files |-> "None", data |-> "None"],
      [method |-> "PUT", url |-> "u", headers |-> "h", files |-> "None", data |-> "bytes"],
      [method |-> "PUT", url |-> "u", headers |-> "h", files |-> "None", data |-> "async_iterator"] }

\* Keyword options a caller of send can pass, and the option sets explored:
\* none, each option alone, all that send does not itself pass by keyword,
\* and all of them together.
KwKeys == {"connection_verify", "connection_timeout", "connection_cert",
           "hooks", "trio_limiter", "proxies", "allow_redirects"}
\* Options that collide with a keyword send passes explicitly to
\* functools.partial: Python refuses the call with TypeError.
ExplicitKeywords == {"allow_redirects"}
KwSets == {{}} \cup { {k} : k \in KwKeys } \cup {KwKeys \ ExplicitKeywords} \cup {KwKeys}

\* A Content-Length header: absent, or a string of decimal digits.
NoHeader == [present |-> FALSE, digits |-> <<>>]
HeaderValues == { <<0>>, <<7>>, <<1, 2>> }
Headers == {NoHeader} \cup { [present |-> TRUE, digits |-> d] : d \in HeaderValues }

RECURSIVE ParseInt(_)
\* int(s) for a string of decimal digits
ParseInt(s) ==
    IF s = <<>> THEN 0
    ELSE 10 * ParseInt(SubSeq(s, 1, Len(s) - 1)) + s[Len(s)]

(***************************************************************************)
(* send                                                                    *)
(***************************************************************************)
\* What one blocking call hands back: a response with its headers, or an error.
OkOutcome(h) == [kind |-> "response", exc |-> NoExc, headers |-> h]
ErrOutcome(e) == [kind |-> "raise", exc |-> e, headers |-> NoHeader]
Outcomes == { OkOutcome(h) : h \in Headers } \cup { ErrOutcome(e) : e \in SendExcs }

\* self._retrieve_request_data(request): an async iterator body is drained
\* into a list the blocking library can send; other bodies are passed as is.
RetrieveRequestData(req) ==
    IF req.data = "async_iterator" THEN "list_iterator" ELSE req.data

\* kwargs.pop(key, default) for the three connection options and hooks.
PoppedKeys == {"connection_verify", "connection_timeout", "connection_cert", "hooks"}
Pop(kw, key) == IF key \in kw THEN "kwargs" ELSE "connection_config"

\* Variant: the fallback dispatch leaves allow_redirects to the library's
\* default, which follows redirects.
RequestCall_FallbackFollowsRedirects(via, req, data, kw, limiter) ==
    [ via             |-> via,
      method          |-> req.method,
      url             |-> req.url,
      headers         |-> req.headers,
      data            |-> data,
      files           |-> req.files,
      verify          |-> Pop(kw, "connection_verify"),
      timeout         |-> Pop(kw, "connection_timeout"),
      cert            |-> Pop(kw, "connection_cert"),
      allow_redirects |-> (via = "run_sync_in_worker_thread"),
      hooks           |-> IF "hooks" \in kw THEN "kwargs" ELSE "None",
      extra           |-> kw \ PoppedKeys,
      limiter         |-> limiter ]

\* functools.partial(self.session.request, ...) dispatched through `via`.
RequestCall(via, req, data, kw, limiter) ==
    [ via             |-> via,
      method          |-> req.method,
      url             |-> req.url,
      headers         |-> req.headers,
      data            |-> data,
      files           |-> req.files,
      verify          |-> Pop(kw, "connection_verify"),
      timeout         |-> Pop(kw, "connection_timeout"),
      cert            |-> Pop(kw, "connection_cert"),
      allow_redirects |-> FALSE,
      hooks           |-> IF "hooks" \in kw THEN "kwargs" ELSE "None",
      extra           |-> kw \ PoppedKeys,
      limiter         |-> limiter ]

\* The except clauses of send, in source order: the adapter error raised
\* for an exception of the blocking call, or the exception itself when no
\* clause catches it.
Raised(c, e) == [kind |-> "raised", cls |-> c, cause |-> e, headers |-> NoHeader]

\* Variant: the two branches of the ConnectionError clause exchanged.
TranslateSendError_ConnBranchesSwapped(e) ==
    IF IsInstance(e, "NewConnectionError") THEN Raised("ServiceRequestError", e)
    ELSE IF IsInstance(e, "ReadTimeout") THEN Raised("ServiceResponseError", e)
    ELSE IF IsInstance(e, "ConnectionError") THEN
        IF e.arg0 = "ProtocolError" THEN Raised("ServiceRequestError", e)
        ELSE Raised("ServiceResponseError", e)
    ELSE IF IsInstance(e, "ChunkedEncodingError") THEN Raised("IncompleteReadError", e)
    ELSE IF IsInstance(e, "RequestException") THEN Raised("ServiceRequestError", e)
    ELSE Raised(e.cls, NoExc)

\* Variant: the ReadTimeout clause left out.
TranslateSendError_NoReadTimeoutClause(e) ==
    IF IsInstance(e, "NewConnectionError") THEN Raised("ServiceRequestError", e)
    ELSE IF IsInstance(e, "ConnectionError") THEN
        IF e.arg0 = "ProtocolError" THEN Raised("ServiceResponseError", e)
        ELSE Raised("ServiceRequestError", e)
    ELSE IF IsInstance(e, "ChunkedEncodingError") THEN Raised("IncompleteReadError", e)
    ELSE IF IsInstance(e, "RequestException") THEN Raised("ServiceRequestError", e)
    ELSE Raised(e.cls, NoExc)

\* Variant: a final catch-all clause wrapping whatever is left in
\* ServiceResponseError, and the generic clause raising that kind too.
TranslateSendError_GenericResponseWrapper(e) ==
    IF IsInstance(e, "NewConnectionError") THEN Raised("ServiceRequestError", e)
    ELSE IF IsInstance(e, "ReadTimeout") THEN Raised("ServiceResponseError", e)
    ELSE IF IsInstance(e, "ConnectionError") THEN
        IF e.arg0 = "ProtocolError" THEN Raised("ServiceResponseError", e)
        ELSE Raised("ServiceRequestError", e)
    ELSE IF IsInstance(e, "ChunkedEncodingError") THEN Raised("IncompleteReadError", e)
    ELSE Raised("ServiceResponseError", e)

\* Variant: the second clause catching requests' Timeout instead of ReadTimeout.
TranslateSendError_AnyTimeoutClause(e) ==
    IF IsInstance(e, "NewConnectionError") THEN Raised("ServiceRequestError", e)
    ELSE IF IsInstance(e, "Timeout") THEN Raised("ServiceResponseError", e)
    ELSE IF IsInstance(e, "ConnectionError") THEN
        IF e.arg0 = "ProtocolError" THEN Raised("ServiceResponseError", e)
        ELSE Raised("ServiceRequestError", e)
    ELSE IF IsInstance(e, "ChunkedEncodingError") THEN Raised("IncompleteReadError", e)
    ELSE IF IsInstance(e, "RequestException") THEN Raised("ServiceRequestError", e)
    ELSE Raised(e.cls, NoExc)

TranslateSendError(e) ==
    IF IsInstance(e, "NewConnectionError") THEN Raised("ServiceRequestError", e)
    ELSE IF IsInstance(e, "ReadTimeout") THEN Raised("ServiceResponseError", e)
    ELSE IF IsInstance(e, "ConnectionError") THEN
        IF e.arg0 = "ProtocolError" THEN Raised("ServiceResponseError", e)
        ELSE Raised("ServiceRequestError", e)
    ELSE IF IsInstance(e, "ChunkedEncodingError") THEN Raised("IncompleteReadError", e)
    ELSE IF IsInstance(e, "RequestException") THEN Raised("ServiceRequestError", e)
    ELSE Raised(e.cls, NoExc)

NoResult == [kind |-> "none", cls |-> "none", cause |-> NoExc, headers |-> NoHeader]
Returned(h) == [kind |-> "response", cls |-> "none", cause |-> NoExc, headers |-> h]

SendResultOf(o) ==
    IF o.kind = "response" THEN Returned(o.headers) ELSE TranslateSendError(o.exc)

NoResponse == [exists |-> FALSE, headers |-> NoHeader, streamed |-> FALSE]
NoArgs == [request |-> [method |-> "none", url |-> "none", headers |-> "none",
                        files |-> "none", data |-> "none"],
           kwargs |-> {}]

\* send(request, **kwargs); o1 and o2 are what the first and (if issued) the
\* second blocking call hand back.
Send(req, kw, o1, o2) ==
    LET trio_limiter == IF "trio_limiter" \in kw THEN "kwargs" ELSE "None"
        data_to_send == RetrieveRequestData(req)
        hasPrimary   == trio_version # "old"
        hasFallback  == trio_version # "new"
        call1        == RequestCall("to_thread.run_sync", req, data_to_send, kw, trio_limiter)
        \* the inner except AttributeError clause is entered
        fallback     == ~hasPrimary \/ (o1.kind = "raise" /\ IsInstance(o1.exc, "AttributeError"))
        kw2          == IF hasPrimary THEN kw \ PoppedKeys ELSE kw
        call2        == RequestCall("run_sync_in_worker_thread", req, req.data, kw2, trio_limiter)
        \* functools.partial(...) gets a keyword twice and raises TypeError
        \* before anything is dispatched
        collides     == kw \cap ExplicitKeywords # {}
        issued       == IF collides THEN <<>>
                        ELSE (IF hasPrimary THEN <<[call |-> call1, outcome |-> o1]>> ELSE <<>>)
                                 \o (IF fallback /\ hasFallback
                                     THEN <<[call |-> call2, outcome |-> o2]>> ELSE <<>>)
        final        == IF collides THEN ErrOutcome(Exc("TypeError", "none"))
                        ELSE IF ~fallback THEN o1
                        ELSE IF hasFallback THEN o2
                        ELSE ErrOutcome(Exc("AttributeError", "none"))
        result       == SendResultOf(final)
    IN  /\ session_open' = TRUE
        /\ calls' = issued
        /\ sendResult' = result
        /\ sendArgs' = [request |-> req, kwargs |-> kw]
        /\ response' = IF result.kind = "response"
                       THEN [exists |-> TRUE, headers |-> result.headers, streamed |-> FALSE]
                       ELSE NoResponse
        /\ UNCHANGED trio_version
        /\ UNCHANGED scopeVars
        /\ UNCHANGED streamVars

(***************************************************************************)
(* The adapter as a scoped context                                         *)
(***************************************************************************)
\* RequestsTransport.__enter__: acquires nothing new.
SyncEnter ==
    /\ sync_entered' = TRUE
    /\ UNCHANGED session_open

\* RequestsTransport.__exit__: releases the underlying resource.
SyncExit ==
    /\ sync_entered' = FALSE
    /\ session_open' = FALSE

\* __aenter__
AEnter ==
    /\ scope = "outside"
    /\ scope' = "inside"
    /\ SyncEnter
    /\ UNCHANGED <<trio_version, calls, sendResult, response, sendArgs, last_exit>>
    /\ UNCHANGED streamVars

\* Variant: __aexit__ releases only when the body completed normally.
AExit_ReleaseOnSuccessOnly(err) ==
    /\ scope = "inside"
    /\ scope' = "outside"
    /\ IF err THEN UNCHANGED <<sync_entered, session_open>> ELSE SyncExit
    /\ last_exit' = IF err THEN "error" ELSE "normal"
    /\ UNCHANGED <<trio_version, calls, sendResult, response, sendArgs>>
    /\ UNCHANGED streamVars

\* __aexit__(*exc_details); err: an error is propagating out of the body.
\* The exception details are not looked at and nothing is returned, so the
\* error keeps propagating.
AExit(err) ==
    /\ scope = "inside"
    /\ scope' = "outside"
    /\ SyncExit
    /\ last_exit' = IF err THEN "error" ELSE "normal"
    /\ UNCHANGED <<trio_version, calls, sendResult, response, sendArgs>>
    /\ UNCHANGED streamVars

(***************************************************************************)
(* stream_download and TrioStreamDownloadGenerator                         *)
(***************************************************************************)
Tasks == {"t1", "t2"}

\* Byte chunks the blocking reader can yield; <<>> is an empty chunk.
Chunks == { <<>>, <<1>>, <<2, 3>> }

NoHandle == [exists |-> FALSE, headers |-> NoHeader, reader |-> "none", content_length |-> 0]

\* int(response.headers.get('Content-Length', 0))
ContentLength(h) == IF h.present THEN ParseInt(h.digits) ELSE 0

\* TrioStreamDownloadGenerator.__init__
NewHandle(h, decompress) ==
    [ exists         |-> TRUE,
      headers        |-> h,
      reader         |-> IF decompress THEN "iter_content" ELSE "_read_raw_stream",
      content_length |-> ContentLength(h) ]

RECURSIVE ByteCount(_)
\* total number of bytes in a sequence of chunks
ByteCount(cs) == IF cs = <<>> THEN 0 ELSE Len(Head(cs)) + ByteCount(Tail(cs))

\* Variant: the length still to come, counted down as chunks are returned.
Length_Remaining == handle.content_length - ByteCount(delivered)

\* TrioStreamDownloadGenerator.__len__
Length == handle.content_length

NoRes == [kind |-> "none", chunk |-> <<>>, exc |-> NoExc]
ChunkRes(c) == [kind |-> "chunk", chunk |-> c, exc |-> NoExc]
RaiseRes(e) == [kind |-> "raise", chunk |-> <<>>, exc |-> e]

NoCtx == [afterEnd |-> FALSE, afterDone |-> FALSE, afterFail |-> FALSE, before |-> <<>>,
          first |-> NoRes]
NoOut == [kind |-> "none", chunk |-> <<>>, exc |-> NoExc, events |-> <<>>, read |-> NoRes,
          first |-> NoRes, afterEnd |-> FALSE, afterDone |-> FALSE, afterFail |-> FALSE, before |-> <<>>]

\* response.stream_download(pipeline, decompress=...): a new generator over
\* the response of the last successful send.  (Any other keyword makes
\* __init__ raise TypeError before a generator exists.)
StreamDownload(decompress) ==
    /\ response.exists
    /\ ~response.streamed
    /\ \A t \in Tasks : pc[t] = "idle"
    /\ handle' = NewHandle(response.headers, decompress)
    /\ response' = [response EXCEPT !.streamed = TRUE]
    /\ produced' = <<>>
    /\ it_done' = FALSE
    /\ closed' = FALSE
    /\ warned' = 0
    /\ res' = [t \in Tasks |-> NoRes]
    /\ ctx' = [t \in Tasks |-> NoCtx]
    /\ out' = [t \in Tasks |-> NoOut]
    /\ delivered' = <<>>
    /\ ended' = FALSE
    /\ failed' = FALSE
    /\ abandoned' = FALSE
    /\ UNCHANGED <<trio_version, session_open, calls, sendResult, sendArgs, pc, inflight>>
    /\ UNCHANGED scopeVars

\* Variant: a pull dispatches the read of the chunk after this one as well.
PullStart_Prefetching(t) ==
    /\ handle.exists
    /\ ~abandoned
    /\ pc[t] = "idle"
    /\ pc' = [pc EXCEPT ![t] = IF trio_version = "old" THEN "fallback" ELSE "primary"]
    /\ inflight' = inflight + 2
    /\ ctx' = [ctx EXCEPT ![t] = [afterEnd |-> ended, afterDone |-> ended /\ it_done,
                                  afterFail |-> failed, before |-> delivered,
                                  first |-> NoRes]]
    /\ res' = [res EXCEPT ![t] = NoRes]
    /\ out' = [out EXCEPT ![t] = NoOut]
    /\ UNCHANGED <<trio_version, handle, produced, it_done, closed, warned,
                   delivered, ended, failed, abandoned>>
    /\ UNCHANGED transportVars
    /\ UNCHANGED scopeVars

\* __anext__ up to the worker dispatch: trio.to_thread.run_sync when the
\* runtime has it, otherwise (AttributeError on the lookup) the older name.
PullStart(t) ==
    /\ handle.exists
    /\ ~abandoned
    /\ pc[t] = "idle"
    /\ pc' = [pc EXCEPT ![t] = IF trio_version = "old" THEN "fallback" ELSE "primary"]
    /\ inflight' = inflight + 1
    /\ ctx' = [ctx EXCEPT ![t] = [afterEnd |-> ended, afterDone |-> ended /\ it_done,
                                  afterFail |-> failed, before |-> delivered,
                                  first |-> NoRes]]
    /\ res' = [res EXCEPT ![t] = NoRes]
    /\ out' = [out EXCEPT ![t] = NoOut]
    /\ UNCHANGED <<trio_version, handle, produced, it_done, closed, warned,
                   delivered, ended, failed, abandoned>>
    /\ UNCHANGED transportVars
    /\ UNCHANGED scopeVars

\* _iterate_response_content(iterator) on the worker thread: next(iterator),
\* with StopIteration turned into _ResponseStopIteration.  The iterator is a
\* generator: once it has returned or raised, every later next() raises
\* StopIteration.
IterateResponseContent(t, r, finishes) ==
    /\ pc[t] \in {"primary", "fallback"}
    /\ pc' = [pc EXCEPT ![t] = IF pc[t] = "primary" THEN "primary_ran" ELSE "fallback_ran"]
    /\ res' = [res EXCEPT ![t] = r]
    /\ inflight' = inflight - 1
    /\ produced' = IF r.kind = "chunk" THEN Append(produced, r.chunk) ELSE produced
    /\ it_done' = (it_done \/ finishes)
    /\ UNCHANGED <<trio_version, handle, closed, warned, ctx, out, delivered,
                   ended, failed, abandoned>>
    /\ UNCHANGED transportVars
    /\ UNCHANGED scopeVars

WorkerYield(t) ==
    /\ ~it_done
    /\ Len(produced) < MaxChunks
    /\ \E c \in Chunks : IterateResponseContent(t, ChunkRes(c), FALSE)

WorkerStop(t) ==
    IterateResponseContent(t, RaiseRes(Exc("_ResponseStopIteration", "none")), TRUE)

WorkerRaise(t) ==
    /\ ~it_done
    /\ \E e \in ReadExcs : IterateResponseContent(t, RaiseRes(e), TRUE)

\* next(iterator) while another worker thread is inside the same generator:
\* ValueError("generator already executing"); the generator is not advanced.
WorkerBusy(t) ==
    /\ ~it_done
    /\ warned < MaxWarnings
    /\ \E u \in Tasks \ {t} : pc[u] \in {"primary", "fallback"}
    /\ IterateResponseContent(t, RaiseRes(Exc("ValueError", "none")), FALSE)

\* except AttributeError around the first dispatch: dispatch again through
\* trio.run_sync_in_worker_thread.
TakesFallback(t) ==
    /\ pc[t] = "primary_ran"
    /\ res[t].kind = "raise"
    /\ IsInstance(res[t].exc, "AttributeError")

PullFallback(t) ==
    /\ TakesFallback(t)
    /\ trio_version = "both"
    /\ pc' = [pc EXCEPT ![t] = "fallback"]
    /\ inflight' = inflight + 1
    /\ res' = [res EXCEPT ![t] = NoRes]
    /\ ctx' = [ctx EXCEPT ![t].first = res[t]]
    /\ UNCHANGED <<trio_version, handle, produced, it_done, closed, warned,
                   out, delivered, ended, failed, abandoned>>
    /\ UNCHANGED transportVars
    /\ UNCHANGED scopeVars

\* The rest of __anext__: what the caller of the pull gets for the worker's
\* result r, and the side effects in the order the code performs them.
Outcome(k, c, e, ev) == [kind |-> k, chunk |-> c, exc |-> e, events |-> ev]

\* Variant: no "if not chunk" test, an empty chunk is returned like any other.
PullOutcome_NoEmptyTest(r) ==
    IF r.kind = "chunk" THEN Outcome("chunk", r.chunk, NoExc, <<>>)
    ELSE IF IsInstance(r.exc, "_ResponseStopIteration")
        THEN Outcome("stop", <<>>, NoExc, <<"close">>)
    ELSE IF IsInstance(r.exc, "StreamConsumedError")
        THEN Outcome("raise", <<>>, r.exc, <<>>)
    ELSE Outcome("raise", <<>>, r.exc, <<"warning", "close">>)

\* Variant: only the empty-chunk test ends the sequence; a finished
\* iterator (_ResponseStopIteration from the worker) is handled like a read
\* error.
PullOutcome_NoStopClause(r) ==
    IF r.kind = "chunk" /\ r.chunk # <<>> THEN Outcome("chunk", r.chunk, NoExc, <<>>)
    ELSE IF r.kind = "chunk"
        THEN Outcome("stop", <<>>, NoExc, <<"close">>)
    ELSE IF IsInstance(r.exc, "StreamConsumedError")
        THEN Outcome("raise", <<>>, r.exc, <<>>)
    ELSE Outcome("raise", <<>>, r.exc, <<"warning", "close">>)

\* Variant: the generic clause logs and re-raises without closing.
PullOutcome_NoCloseOnError(r) ==
    IF r.kind = "chunk" /\ r.chunk # <<>> THEN Outcome("chunk", r.chunk, NoExc, <<>>)
    ELSE IF r.kind = "chunk" \/ IsInstance(r.exc, "_ResponseStopIteration")
        THEN Outcome("stop", <<>>, NoExc, <<"close">>)
    ELSE IF IsInstance(r.exc, "StreamConsumedError")
        THEN Outcome("raise", <<>>, r.exc, <<>>)
    ELSE Outcome("raise", <<>>, r.exc, <<"warning">>)

\* Variant: no except StreamConsumedError clause.
PullOutcome_NoStreamConsumedClause(r) ==
    IF r.kind = "chunk" /\ r.chunk # <<>> THEN Outcome("chunk", r.chunk, NoExc, <<>>)
    ELSE IF r.kind = "chunk" \/ IsInstance(r.exc, "_ResponseStopIteration")
        THEN Outcome("stop", <<>>, NoExc, <<"close">>)
    ELSE Outcome("raise", <<>>, r.exc, <<"warning", "close">>)

PullOutcome(r) ==
    IF r.kind = "chunk" /\ r.chunk # <<>> THEN Outcome("chunk", r.chunk, NoExc, <<>>)
    ELSE IF r.kind = "chunk" \/ IsInstance(r.exc, "_ResponseStopIteration")
        THEN Outcome("stop", <<>>, NoExc, <<"close">>)
    ELSE IF IsInstance(r.exc, "StreamConsumedError")
        THEN Outcome("raise", <<>>, r.exc, <<>>)
    ELSE Outcome("raise", <<>>, r.exc, <<"warning", "close">>)

HasEvent(ev, x) == \E i \in 1..Len(ev) : ev[i] = x

PullFinish(t) ==
    /\ pc[t] \in {"primary_ran", "fallback_ran"}
    /\ ~(TakesFallback(t) /\ trio_version = "both")
    /\ LET \* on a runtime without the older name the lookup in the except
           \* AttributeError clause raises AttributeError itself
           r == IF TakesFallback(t) THEN RaiseRes(Exc("AttributeError", "none")) ELSE res[t]
           o == PullOutcome(r)
       IN  /\ out' = [out EXCEPT ![t] =
                        [kind |-> o.kind, chunk |-> o.chunk, exc |-> o.exc,
                         events |-> o.events, read |-> r, first |-> ctx[t].first,
                         afterEnd |-> ctx[t].afterEnd, afterDone |-> ctx[t].afterDone,
                         afterFail |-> ctx[t].afterFail, before |-> ctx[t].before]]
           /\ delivered' = IF o.kind = "chunk" THEN Append(delivered, o.chunk) ELSE delivered
           /\ closed' = (closed \/ HasEvent(o.events, "close"))
           /\ warned' = IF HasEvent(o.events, "warning") THEN warned + 1 ELSE warned
           /\ ended' = (ended \/ o.kind = "stop")
           /\ failed' = (failed \/ HasEvent(o.events, "warning"))
    /\ pc' = [pc EXCEPT ![t] = "idle"]
    /\ res' = [res EXCEPT ![t] = NoRes]
    /\ ctx' = [ctx EXCEPT ![t] = NoCtx]
    /\ UNCHANGED <<trio_version, handle, produced, it_done, inflight, abandoned>>
    /\ UNCHANGED transportVars
    /\ UNCHANGED scopeVars

\* Variant: dropping the generator closes the connection.
Abandon_Closing ==
    /\ handle.exists
    /\ ~abandoned
    /\ ~ended
    /\ ~failed
    /\ \A t \in Tasks : pc[t] = "idle"
    /\ abandoned' = TRUE
    /\ closed' = TRUE
    /\ UNCHANGED <<trio_version, handle, produced, it_done, warned, pc, inflight,
                   res, ctx, out, delivered, ended, failed>>
    /\ UNCHANGED <<session_open, calls, sendResult, response, sendArgs>>
    /\ UNCHANGED scopeVars

\* The consumer stops pulling and drops the generator.  The class defines
\* no aclose, __del__ or context-manager exit, so none of its code runs.
Abandon ==
    /\ handle.exists
    /\ ~abandoned
    /\ ~ended
    /\ ~failed
    /\ \A t \in Tasks : pc[t] = "idle"
    /\ abandoned' = TRUE
    /\ UNCHANGED <<trio_version, handle, produced, it_done, closed, warned, pc,
                   inflight, res, ctx, out, delivered, ended, failed>>
    /\ UNCHANGED transportVars
    /\ UNCHANGED scopeVars

(***************************************************************************)
(* Specifications                                                          *)
(***************************************************************************)
TrioVersions == {"old", "both", "new"}

Init ==
    /\ trio_version \in TrioVersions
    /\ session_open = FALSE
    /\ calls = <<>>
    /\ sendResult = NoResult
    /\ response = NoResponse
    /\ sendArgs = NoArgs
    /\ scope = "outside"
    /\ sync_entered = FALSE
    /\ last_exit = "none"
    /\ handle = NoHandle
    /\ produced = <<>>
    /\ it_done = FALSE
    /\ closed = FALSE
    /\ warned = 0
    /\ pc = [t \in Tasks |-> "idle"]
    /\ inflight = 0
    /\ res = [t \in Tasks |-> NoRes]
    /\ ctx = [t \in Tasks |-> NoCtx]
    /\ out = [t \in Tasks |-> NoOut]
    /\ delivered = <<>>
    /\ ended = FALSE
    /\ failed = FALSE
    /\ abandoned = FALSE

\* The blocking calls a send issues on the current runtime, given what the
\* primary dispatch hands back; an outcome of a call that is not issued is
\* pinned to one value.
PrimaryIssued == trio_version # "old"
FallbackIssued(o1) ==
    \/ trio_version = "old"
    \/ trio_version = "both" /\ o1.kind = "raise" /\ IsInstance(o1.exc, "AttributeError")
UnusedOutcome == OkOutcome(NoHeader)
OutcomePairs ==
    { p \in Outcomes \X Outcomes :
        /\ PrimaryIssued \/ p[1] = UnusedOutcome
        /\ FallbackIssued(p[1]) \/ p[2] = UnusedOutcome }

\* send with every request, explored option set and outcome of the blocking calls
SendAny ==
    \E req \in Requests, kw \in KwSets, p \in OutcomePairs : Send(req, kw, p[1], p[2])

\* a plain GET without options, with every outcome of the blocking calls
DefaultRequest == [method |-> "GET", url |-> "u", headers |-> "h", files |-> "None", data |-> "None"]
SendDefault ==
    \E p \in OutcomePairs : Send(DefaultRequest, {}, p[1], p[2])

\* The transport alone: sends one after another on one transport.
SendNext == SendAny
SendSpec == Init /\ [][SendNext]_vars

\* The adapter used as a scoped context around sends.
ScopeNext ==
    \/ AEnter
    \/ \E err \in BOOLEAN : AExit(err)
    \/ SendDefault
ScopeSpec == Init /\ [][ScopeNext]_vars

\* A send followed by one consumer task streaming the body of the response
\* it returned, each pull awaited before the next.
Consumer == "t1"
Next ==
    \/ ~handle.exists /\ SendDefault
    \/ \E d \in BOOLEAN : StreamDownload(d)
    \/ PullStart(Consumer)
    \/ WorkerYield(Consumer)
    \/ WorkerStop(Consumer)
    \/ WorkerRaise(Consumer)
    \/ PullFallback(Consumer)
    \/ PullFinish(Consumer)
    \/ Abandon
Spec == Init /\ [][Next]_vars

\* Tasks pulling from one stream without waiting for each other.  The
\* stream is that of a plain successful send; the reader yields one of two
\* chunks, finishes, or fails in one of two ways.
ConcChunks == {<<>>, <<1>>}
ConcReadErrors == {"AttributeError", "ReadTimeout"}
PullStep(t) ==
    \/ PullStart(t)
    \/ WorkerYield(t) /\ res'[t].chunk \in ConcChunks
    \/ WorkerStop(t)
    \/ WorkerRaise(t) /\ res'[t].exc.cls \in ConcReadErrors
    \/ WorkerBusy(t)
    \/ PullFallback(t)
    \/ PullFinish(t)
ConcNext ==
    \/ ~handle.exists /\ sendResult = NoResult /\ SendDefault /\ response'.headers = NoHeader
    \/ StreamDownload(TRUE)
    \/ \E t \in Tasks : PullStep(t)
ConcSpec == Init /\ [][ConcNext]_vars

(***************************************************************************)
(* Properties of send                                                      *)
(***************************************************************************)
\* The blocking call whose result decided the last send, and its failure.
LastCall == calls[Len(calls)]
BlockingFailed == calls # <<>> /\ LastCall.outcome.kind = "raise"
Underlying == LastCall.outcome.exc

\* The peer was never reached: urllib3 could not open a connection, or
\* requests gave up connecting (refused, no route, proxy, connect timeout).
ConnectLevel(e) ==
    \/ e.cls = "NewConnectionError"
    \/ e.cls \in {"ConnectionError", "ProxyError", "ConnectTimeout"} /\ e.arg0 = "MaxRetryError"

\* C1: when the blocking request call fails with a connect-level failure,
\* send raises ServiceRequestError carrying that failure and returns no
\* response.
C1_ConnectFailure ==
    (BlockingFailed /\ ConnectLevel(Underlying)) =>
        /\ sendResult = Raised("ServiceRequestError", Underlying)
        /\ ~response.exists

C1_Witness ==
    /\ BlockingFailed
    /\ Underlying = Exc("ConnectionError", "MaxRetryError")
    /\ sendResult.cls = "ServiceRequestError"
    /\ ~response.exists

\* A failure after the connection was established: a read timeout, or a
\* connection error caused by a lower-level protocol error.
AfterConnect(e) ==
    \/ IsInstance(e, "ReadTimeout")
    \/ IsInstance(e, "ConnectionError") /\ e.arg0 = "ProtocolError"

\* C2: when the blocking request call fails with a read timeout, or with a
\* connection error whose cause is a protocol error, send raises
\* ServiceResponseError carrying that failure and returns no response.
C2_ReadFailure ==
    (BlockingFailed /\ AfterConnect(Underlying)) =>
        /\ sendResult = Raised("ServiceResponseError", Underlying)
        /\ ~response.exists

C2_Witness ==
    /\ BlockingFailed
    /\ Underlying.cls = "ReadTimeout"
    /\ sendResult.cls = "ServiceResponseError"
    /\ ~response.exists

AdapterKinds == {"ServiceRequestError", "ServiceResponseError", "IncompleteReadError"}

\* An exception none of the specific except clauses of send names.
Unrecognised(e) ==
    /\ ~IsInstance(e, "NewConnectionError")
    /\ ~IsInstance(e, "ReadTimeout")
    /\ ~IsInstance(e, "ConnectionError")
    /\ ~IsInstance(e, "ChunkedEncodingError")

\* C3 as stated: every exception of the blocking call is re-raised as one
\* of the three adapter kinds with the original as its cause, and an
\* unrecognised one as ServiceResponseError.
C3_AllWrapped ==
    BlockingFailed =>
        /\ sendResult.kind = "raised"
        /\ sendResult.cls \in AdapterKinds
        /\ sendResult.cause = Underlying
        /\ Unrecognised(Underlying) => sendResult.cls = "ServiceResponseError"

\* C3, amended: an exception of the blocking call that is a requests
\* RequestException or urllib3's NewConnectionError is re-raised as exactly
\* one of the three adapter kinds with the original as its cause, an
\* unrecognised RequestException as ServiceRequestError; any other
\* exception leaves send unwrapped, as its own class.
C3_Translation ==
    BlockingFailed =>
        IF IsInstance(Underlying, "RequestException") \/ IsInstance(Underlying, "NewConnectionError")
        THEN /\ sendResult.kind = "raised"
             /\ sendResult.cls \in AdapterKinds
             /\ sendResult.cause = Underlying
             /\ Unrecognised(Underlying) => sendResult.cls = "ServiceRequestError"
        ELSE /\ sendResult.kind = "raised"
             /\ sendResult.cls = Underlying.cls
             /\ sendResult.cls \notin AdapterKinds
             /\ sendResult.cause = NoExc

C3_Witness ==
    /\ BlockingFailed
    /\ Underlying.cls = "InvalidURL"
    /\ sendResult = Raised("ServiceRequestError", Underlying)

\* C9 as stated: whenever the timeout of the blocking call expires, while
\* connecting or while reading, send raises ServiceResponseError.
C9_TimeoutIsResponseError ==
    (BlockingFailed /\ Underlying.cls \in {"ConnectTimeout", "ReadTimeout"}) =>
        sendResult.cls = "ServiceResponseError"

\* C9, amended: expiry while reading (ReadTimeout) makes send raise
\* ServiceResponseError; expiry while connecting (ConnectTimeout, raised
\* around urllib3's MaxRetryError) makes it raise ServiceRequestError.
C9_TimeoutByPhase ==
    BlockingFailed =>
        /\ Underlying.cls = "ReadTimeout" =>
               sendResult = Raised("ServiceResponseError", Underlying)
        /\ (Underlying.cls = "ConnectTimeout" /\ Underlying.arg0 = "MaxRetryError") =>
               sendResult = Raised("ServiceRequestError", Underlying)

C9_Witness ==
    /\ BlockingFailed
    /\ Underlying = Exc("ConnectTimeout", "MaxRetryError")
    /\ sendResult.cls = "ServiceRequestError"

\* C12: every blocking request a send issues, through either dispatch and
\* with any options, has automatic redirect following disabled.
C12_RedirectsDisabled ==
    \A i \in 1..Len(calls) : calls[i].call.allow_redirects = FALSE

C12_Witness ==
    /\ Len(calls) = 2
    /\ calls[2].call.via = "run_sync_in_worker_thread"
    /\ calls[2].call.allow_redirects = FALSE
    /\ sendArgs.kwargs = KwKeys \ ExplicitKeywords

\* C13 as stated: one send invokes the blocking request at most once,
\* whatever that invocation hands back.
C13_AtMostOneRequest == Len(calls) <= 1

\* C17 as stated: a limiter passed to send is handed to the worker dispatch
\* as its limiter, is not among the keyword arguments forwarded to the
\* blocking request, and leaves the request as it is without a limiter.
C17_LimiterNotForwarded ==
    \A i \in 1..Len(calls) :
        LET c == calls[i].call
            without == RequestCall(c.via, sendArgs.request, c.data,
                                   sendArgs.kwargs \ {"trio_limiter"}, "None")
        IN  "trio_limiter" \in sendArgs.kwargs =>
                /\ c.limiter = "kwargs"
                /\ "trio_limiter" \notin c.extra
                /\ [c EXCEPT !.limiter = "None"] = without

\* C18 as stated: the request issued through the fallback dispatch has the
\* same method, URL, headers, body, files, verify, timeout, cert, redirect
\* policy, hooks and extra options as the primary dispatch issues for the
\* same send call.
PrimaryRequest ==
    RequestCall("to_thread.run_sync", sendArgs.request, RetrieveRequestData(sendArgs.request),
                sendArgs.kwargs,
                IF "trio_limiter" \in sendArgs.kwargs THEN "kwargs" ELSE "None")
C18_FallbackSameRequest ==
    \A i \in 1..Len(calls) :
        calls[i].call.via = "run_sync_in_worker_thread" =>
            [calls[i].call EXCEPT !.via = "to_thread.run_sync"] = PrimaryRequest

\* C14: the step that leaves the scoped context runs the release of the
\* synchronous resource that entering delegated to, whether the body
\* completed or an error is propagating out of it.
C14_ExitReleases ==
    [][(scope = "inside" /\ scope' = "outside") =>
           (sync_entered /\ ~sync_entered' /\ ~session_open')]_vars

C14_Witness ==
    /\ last_exit = "error"
    /\ scope = "outside"
    /\ ~sync_entered
    /\ ~session_open
    /\ calls # <<>>

(***************************************************************************)
(* Properties of the streaming sequence                                    *)
(***************************************************************************)
Pulled(t) == out[t].kind # "none"
ReaderRaised(t, c) == Pulled(t) /\ out[t].read.kind = "raise" /\ IsInstance(out[t].read.exc, c)
NonEmpty(c) == c # <<>>

RECURSIVE Flatten(_)
\* the bytes of a sequence of chunks, concatenated
Flatten(cs) == IF cs = <<>> THEN <<>> ELSE Head(cs) \o Flatten(Tail(cs))

\* C4 as stated: a truncated transfer (ChunkedEncodingError) reaches the
\* caller as IncompleteReadError, whether it is detected in send or in a
\* pull of the streaming sequence.
C4_TruncationSurfaces ==
    /\ (BlockingFailed /\ IsInstance(Underlying, "ChunkedEncodingError")) =>
           sendResult.cls = "IncompleteReadError"
    /\ \A t \in Tasks :
           ReaderRaised(t, "ChunkedEncodingError") =>
               out[t].kind = "raise" /\ out[t].exc.cls = "IncompleteReadError"

\* The pull that ended the sequence for the first time.
FirstEnd(t) == out[t].kind = "stop" /\ ~out[t].afterEnd

\* C5: when the sequence ends for the first time, the consumer has been
\* given exactly the chunks the underlying iterator yielded, in its order
\* and all non-empty, the end came from an empty or absent chunk, and the
\* ending pull raised no error (it closed the connection and stopped).
C5_StreamsAllChunks ==
    \A t \in Tasks :
        FirstEnd(t) =>
            /\ produced = delivered \/ produced = Append(delivered, <<>>)
            /\ \A i \in 1..Len(delivered) : NonEmpty(delivered[i])
            /\ Flatten(delivered) = Flatten(produced)
            /\ out[t].events = <<"close">>

C5_Witness ==
    /\ FirstEnd(Consumer)
    /\ ~out[Consumer].afterFail
    /\ Len(delivered) = 2
    /\ delivered[1] # delivered[2]
    /\ produced = delivered

\* C6 as stated: after the sequence has ended, every later pull signals the
\* normal end and yields no chunk, whatever the underlying iterator holds.
C6_EndIsFinal ==
    \A t \in Tasks : (Pulled(t) /\ out[t].afterEnd) => out[t].kind = "stop"

\* C6, amended: after the sequence has ended with the underlying iterator
\* finished, every later pull signals the normal end and yields no chunk.
C6_FinishedIteratorStaysEnded ==
    \A t \in Tasks :
        (Pulled(t) /\ out[t].afterDone) =>
            /\ out[t].kind = "stop"
            /\ delivered = out[t].before

C6_Witness ==
    /\ out[Consumer].afterDone
    /\ out[Consumer].kind = "stop"
    /\ delivered # <<>>

\* The reader raised a read timeout: requests' ReadTimeout, or the
\* ConnectionError it raises around urllib3's ReadTimeoutError.
IsReadTimeout(e) ==
    \/ e.cls = "ReadTimeout"
    \/ e.cls = "ConnectionError" /\ e.arg0 = "ReadTimeoutError"
ReadTimedOut(t) == Pulled(t) /\ out[t].read.kind = "raise" /\ IsReadTimeout(out[t].read.exc)

\* C7 as stated: the pull on which the reader times out fails with
\* ServiceResponseError after the preceding chunks were received, and
\* closes the connection; no later pull yields a chunk.
C7_ReadTimeoutIsResponseError ==
    /\ \A t \in Tasks :
           ReadTimedOut(t) =>
               /\ out[t].kind = "raise"
               /\ out[t].exc.cls = "ServiceResponseError"
               /\ delivered = SelectSeq(produced, NonEmpty)
               /\ HasEvent(out[t].events, "close")
    /\ \A t \in Tasks : (Pulled(t) /\ out[t].afterFail) => out[t].kind # "chunk"

\* C7, amended: the pull on which the reader times out re-raises the
\* reader's own error unchanged, after the preceding chunks were received;
\* it logs a warning and closes the connection first; no later pull yields
\* a chunk.
C7_ReadTimeoutReraised ==
    /\ \A t \in Tasks :
           ReadTimedOut(t) =>
               /\ out[t].kind = "raise"
               /\ out[t].exc = out[t].read.exc
               /\ delivered = SelectSeq(produced, NonEmpty)
               /\ delivered = out[t].before
               /\ out[t].events = <<"warning", "close">>
               /\ closed
    /\ \A t \in Tasks :
           (Pulled(t) /\ out[t].afterFail) =>
               /\ out[t].kind # "chunk"
               /\ delivered = out[t].before
               /\ closed

C7_Witness ==
    /\ ReadTimedOut(Consumer)
    /\ out[Consumer].kind = "raise"
    /\ Len(delivered) = 1
    /\ closed

RECURSIVE DecimalValue(_, _)
\* the number a string of decimal digits denotes, read left to right
DecimalValue(d, acc) ==
    IF d = <<>> THEN acc ELSE DecimalValue(Tail(d), 10 * acc + Head(d))

\* The length the response's Content-Length header declares, 0 without one.
DeclaredLength(h) == IF h.present THEN DecimalValue(h.digits, 0) ELSE 0

\* C8: at every point of a stream handle's life, length() is the length
\* declared by the Content-Length header of its response, 0 when the
\* header is absent.
C8_LengthIsDeclared ==
    handle.exists => Length = DeclaredLength(handle.headers)

C8_Witness ==
    /\ handle.exists
    /\ Length = 12
    /\ ended
    /\ Len(delivered) = 2

\* C10 as stated: once the consumer has abandoned the sequence, the
\* connection of the response is closed.
C10_AbandonCloses == abandoned => closed

\* C10, amended: abandoning the sequence produces no further chunk and
\* runs no teardown: the step that abandons it, and every step after,
\* leaves the connection as it was.
C10_AbandonLeavesConnection ==
    [][(abandoned' /\ handle' = handle) =>
           /\ closed' = closed
           /\ produced' = produced
           /\ delivered' = delivered]_vars

C10_Witness ==
    /\ abandoned
    /\ ~closed
    /\ ~it_done
    /\ delivered # <<>>

\* C11: a pull during which the reader reports the stream as already
\* consumed re-raises that same error, and the step that completes the
\* pull neither closes the connection, nor logs a warning, nor marks the
\* stream failed.
C11_StreamConsumedReraised ==
    [][\A t \in Tasks :
          (pc[t] # "idle" /\ pc'[t] = "idle" /\ ReaderRaised(t, "StreamConsumedError")') =>
              /\ out'[t].kind = "raise"
              /\ out'[t].exc = out'[t].read.exc
              /\ out'[t].events = <<>>
              /\ closed' = closed
              /\ warned' = warned
              /\ failed' = failed]_vars

C11_Witness ==
    /\ ReaderRaised(Consumer, "StreamConsumedError")
    /\ out[Consumer].kind = "raise"
    /\ ~closed
    /\ warned = 0
    /\ delivered # <<>>

\* C16: one pull never has more than one worker dispatch in flight, so the
\* dispatches in flight never outnumber the tasks inside a pull.
C16_OneDispatchPerPull ==
    inflight <= Cardinality({ t \in Tasks : pc[t] # "idle" })

C16_Witness ==
    /\ inflight = 2
    /\ pc["t1"] = "fallback"
    /\ pc["t2"] = "primary"
    /\ ctx["t1"].first # NoRes

\* C16 as stated: at most one worker dispatch reads the iterator at any
\* moment, whatever tasks pull, and chunks reach the consumers in the order
\* the iterator yielded them.
C16_OneDispatchInFlight ==
    /\ inflight <= 1
    /\ delivered = SubSeq(SelectSeq(produced, NonEmpty), 1, Len(delivered))

\* C15 as stated: a pull during which the reader raised an error other than
\* stream-already-consumed logs a warning, then closes the connection, then
\* raises the error, and the connection is closed from then on.
ReadErrors(t) ==
    { r \in {out[t].first, out[t].read} :
        /\ r.kind = "raise"
        /\ ~IsInstance(r.exc, "_ResponseStopIteration")
        /\ ~IsInstance(r.exc, "StreamConsumedError") }
C15_ReadErrorLoggedClosedRaised ==
    \A t \in Tasks :
        (Pulled(t) /\ ReadErrors(t) # {}) =>
            /\ out[t].kind = "raise"
            /\ out[t].exc \in { r.exc : r \in ReadErrors(t) }
            /\ out[t].events = <<"warning", "close">>
            /\ closed

====
